---- MODULE Spec2Model ----
(***************************************************************************)
(* bevy_multicopter: the rotor force/torque model of src/lib.rs and the    *)
(* flight controller, dynamics system and frame loop of                    *)
(* examples/simulation.rs.                                                 *)
(*                                                                         *)
(* Arithmetic.  f32 values are modelled as exact rationals [n, d] in       *)
(* lowest terms (rounding is not modelled).  A spin rate is a surd         *)
(* [c, s] standing for c * sqrt(s), so that (x / k).sqrt() and powi(2)     *)
(* are computed, not assumed to cancel.  Vectors are triples <<x, y, z>>   *)
(* of rationals, y is world "up".  Units are SI, except spin rates which   *)
(* are in krad/s (so 1e-6 N/(rad/s)^2 reads 1 N/(krad/s)^2).               *)
(***************************************************************************)
EXTENDS Integers, Sequences, FiniteSets, TLC

VARIABLES
    world,             \* the entities carrying a Multicopter, in query order
    log,               \* entities for which the last dynamics run called error!()
    ret,               \* the outcome of the last library call (new, state_derivative)
    halted,            \* the process panicked
    frame,             \* number of the current frame (0 = before the first)
    pc,                \* position in the frame: "First", "Dynamics", "Physics", "Update"
    paused,            \* Time<Virtual>::is_paused()
    dt,                \* Time<Virtual>::delta_secs() of the current frame
    steps,             \* FixedUpdate runs still to do in the current frame
    desired_altitude,  \* Local<Option<f32>> of control_quadcopter
    integral_term,     \* Local<f32> of control_quadcopter
    tick,              \* the locals of the last control_quadcopter run
    consumed           \* what the last quadcopter_dynamics run read

vars == <<world, log, ret, halted, frame, pc, paused, dt, steps,
          desired_altitude, integral_term, tick, consumed>>

libVars == <<world, log, ret, halted>>
appVars == <<frame, pc, paused, dt, steps, desired_altitude, integral_term,
             tick, consumed>>

---------------------------------------------------------------------------
(* Bounds of the model.                                                    *)

MaxFrames == 3        \* frames of the application that are explored
MaxFixedSteps == 2    \* FixedUpdate runs within one frame
MaxKeys == 2          \* keys held down at the same time
MaxDtEighths == 1     \* frame time, in eighths of a second
MaxRotors == 5        \* rotors of a vehicle built through the library
MaxInputs == 5        \* length of a control input vector given to the library
MaxVehicles == 2      \* vehicles in a world built through the library
MaxOmega == 2         \* largest spin rate given to the library directly

---------------------------------------------------------------------------
(* Rationals.                                                              *)

\* The operators below bind their arguments (a \in {x}) before they use
\* them, so that an argument is evaluated once.

Abs(x) == IF x < 0 THEN -x ELSE x

RECURSIVE GCD(_, _)
GCD(a, b) == IF b = 0 THEN a ELSE GCD(b, a % b)

Rat(n, d) ==
    CHOOSE r \in { LET g == GCD(Abs(p), Abs(q))
                       s == IF q < 0 THEN -1 ELSE 1
                   IN  [n |-> (s * p) \div g, d |-> (s * q) \div g] :
                   p \in {n}, q \in {d} } : TRUE

Zero == [n |-> 0, d |-> 1]

One == [n |-> 1, d |-> 1]

RAdd(x, y) ==
    CHOOSE r \in { LET g == GCD(a.d, b.d)
                   IN  Rat(a.n * (b.d \div g) + b.n * (a.d \div g),
                           (a.d \div g) * b.d) :
                   a \in {x}, b \in {y} } : TRUE

RNeg(x) == CHOOSE r \in { [n |-> -a.n, d |-> a.d] : a \in {x} } : TRUE

RSub(x, y) == RAdd(x, RNeg(y))

RMul(x, y) ==
    CHOOSE r \in { LET g1 == GCD(Abs(a.n), b.d)
                       g2 == GCD(Abs(b.n), a.d)
                   IN  Rat((a.n \div g1) * (b.n \div g2),
                           (a.d \div g2) * (b.d \div g1)) :
                   a \in {x}, b \in {y} } : TRUE

\* 1 / y for y # 0
RRecip(y) == CHOOSE r \in { Rat(b.d, b.n) : b \in {y} } : TRUE

RDiv(x, y) == RMul(x, RRecip(y))

RLt(x, y) == \E a \in {x}, b \in {y} : a.n * b.d < b.n * a.d

RLe(x, y) == \E a \in {x}, b \in {y} : a.n * b.d <= b.n * a.d

\* f32::min
RMin(x, y) ==
    CHOOSE r \in { IF RLt(b, a) THEN b ELSE a : a \in {x}, b \in {y} } : TRUE

---------------------------------------------------------------------------
(* Spin rates: c * sqrt(s), with one representation of zero.               *)

Surd(x, y) ==
    CHOOSE r \in { IF c.n = 0 \/ s.n = 0
                   THEN [c |-> Zero, s |-> Zero]
                   ELSE [c |-> c, s |-> s] :
                   c \in {x}, s \in {y} } : TRUE

\* f32::sqrt of x >= 0
Sqrt(x) == Surd(One, x)

\* rate * factor
SurdScale(x, q) ==
    CHOOSE r \in { Surd(RMul(w.c, q), w.s) : w \in {x} } : TRUE

\* f32::powi(2)
Powi2(x) == CHOOSE r \in { RMul(RMul(w.c, w.c), w.s) : w \in {x} } : TRUE

\* a plain number as a spin rate
Omega(q) == Surd(q, One)

---------------------------------------------------------------------------
(* Vec3 and Mat3 (a matrix is a triple of rows).                           *)

VZero == <<Zero, Zero, Zero>>

VY == <<Zero, One, Zero>>

VAdd(x, y) ==
    CHOOSE r \in { <<RAdd(a[1], b[1]), RAdd(a[2], b[2]), RAdd(a[3], b[3])>> :
                   a \in {x}, b \in {y} } : TRUE

VSub(x, y) ==
    CHOOSE r \in { <<RSub(a[1], b[1]), RSub(a[2], b[2]), RSub(a[3], b[3])>> :
                   a \in {x}, b \in {y} } : TRUE

\* f32 * Vec3
VScale(x, y) ==
    CHOOSE r \in { <<RMul(q, a[1]), RMul(q, a[2]), RMul(q, a[3])>> :
                   q \in {x}, a \in {y} } : TRUE

\* Vec3 + f32: glam adds the scalar to every component
VAddScalar(x, y) ==
    CHOOSE r \in { <<RAdd(a[1], q), RAdd(a[2], q), RAdd(a[3], q)>> :
                   a \in {x}, q \in {y} } : TRUE

VDot(x, y) ==
    CHOOSE r \in { RAdd(RAdd(RMul(a[1], b[1]), RMul(a[2], b[2])),
                        RMul(a[3], b[3])) :
                   a \in {x}, b \in {y} } : TRUE

VCross(x, y) ==
    CHOOSE r \in { << RSub(RMul(a[2], b[3]), RMul(a[3], b[2])),
                      RSub(RMul(a[3], b[1]), RMul(a[1], b[3])),
                      RSub(RMul(a[1], b[2]), RMul(a[2], b[1])) >> :
                   a \in {x}, b \in {y} } : TRUE

RECURSIVE VSumTo(_, _)
VSumTo(vs, n) == IF n = 0 THEN VZero ELSE VAdd(VSumTo(vs, n - 1), vs[n])

\* Iterator::sum over a sequence of Vec3
VSum(x) == CHOOSE r \in { VSumTo(vs, Len(vs)) : vs \in {x} } : TRUE

MatVec(x, y) ==
    CHOOSE r \in { <<VDot(m[1], v), VDot(m[2], v), VDot(m[3], v)>> :
                   m \in {x}, v \in {y} } : TRUE

\* a diagonal Mat3, given by its diagonal
Diag(x) ==
    CHOOSE r \in { << <<v[1], Zero, Zero>>, <<Zero, v[2], Zero>>,
                      <<Zero, Zero, v[3]>> >> : v \in {x} } : TRUE

\* Mat3::inverse of a diagonal matrix with non-zero diagonal
DiagInverse(x) ==
    CHOOSE r \in { <<RRecip(v[1]), RRecip(v[2]), RRecip(v[3])>> : v \in {x} } : TRUE

---------------------------------------------------------------------------
(* src/lib.rs                                                              *)

\* Iterator::zip stops at the shorter of the two
ZipLen(a, b) == IF Len(a) < Len(b) THEN Len(a) ELSE Len(b)

\* lib.rs:48-55, the force of each prop
forces(propellers, inputs) ==
    CHOOSE r \in { [i \in 1..ZipLen(ps, ws) |->
                      VScale(RMul(ps[i].thrust_constant, Powi2(ws[i])),
                             ps[i].direction)] :
                   ps \in {propellers}, ws \in {inputs} } : TRUE

\* lib.rs:58, the net thrust vector of the 'copter
thrust(propellers, inputs) == VSum(forces(propellers, inputs))

\* lib.rs:66-71, what one propeller adds to the net torque: the torque due
\* to its thrust plus its rotational drag.  rotation_direction is not read.
propeller_torque_term(propeller, force, omega) ==
    VAddScalar(VCross(propeller.position, force),
               RMul(propeller.drag_constant, Powi2(omega)))

\* lib.rs:61-72, the net torque due to the propellers
propeller_torque(propellers, inputs) ==
    CHOOSE r \in { VSum([i \in 1..ZipLen(f, ws) |->
                            propeller_torque_term(ps[i], f[i], ws[i])]) :
                   f \in {forces(propellers, inputs)},
                   ps \in {propellers}, ws \in {inputs} } : TRUE

\* lib.rs:78, angular_velocity.cross(self.inertia * angular_velocity)
gyroscopic(inertia, angular_velocity) ==
    VCross(angular_velocity, MatVec(Diag(inertia), angular_velocity))

\* lib.rs:41, the check state_derivative starts with
LengthLess(propellers, inputs) == Len(inputs) < Len(propellers)

InvalidInputLength(propellers, inputs) == Len(inputs) # Len(propellers)

\* lib.rs:32-83.  rotation is quadcopter_state.rotation().
state_derivative(self, rotation, angular_velocity, inputs, external_force, external_torque) ==
    IF InvalidInputLength(self.propellers, inputs)
    THEN [kind |-> "Err", msg |-> "Incorrect control input length"]
    ELSE
        [kind |-> "Ok",
         acceleration |->
            VScale(self.inverse_mass,
                   VAdd(external_force,
                        MatVec(rotation, thrust(self.propellers, inputs)))),
         angular_acceleration |->
            MatVec(Diag(DiagInverse(self.inertia)),
                   VSub(VAdd(external_torque,
                             MatVec(rotation,
                                    propeller_torque(self.propellers, inputs))),
                        gyroscopic(self.inertia, angular_velocity)))]

\* The aggregator as examples/simulation.rs calls it (simulation.rs:305-311);
\* lib.rs holds it in its state_derivative form only.  Same length check and
\* same per-rotor sums; the result is the world-frame force and torque.
force_torque(self, rotation, angular_velocity, inputs, inertia_tensor) ==
    IF InvalidInputLength(self.propellers, inputs)
    THEN [kind |-> "Err", msg |-> "Incorrect control input length"]
    ELSE
        [kind |-> "Ok",
         force |-> MatVec(rotation, thrust(self.propellers, inputs)),
         torque |->
            VSub(MatVec(rotation, propeller_torque(self.propellers, inputs)),
                 gyroscopic(inertia_tensor, angular_velocity))]

\* lib.rs:85-94.  assert! panics on an empty list; Err is never returned.
\* inertia is the diagonal of the (diagonal) inertia matrix.
new(inertia, mass, propellers) ==
    IF Len(propellers) = 0
    THEN [kind |-> "Panic", msg |-> "Don't try to simulate a 0-copter"]
    ELSE
        [kind |-> "Ok",
         value |-> [inertia |-> inertia,
                    inverse_mass |-> RDiv(One, mass),
                    propellers |-> propellers,
                    inverse_inertia |-> DiagInverse(inertia)]]

---------------------------------------------------------------------------
(* examples/simulation.rs: constants and setup                             *)

\* 1e-6 N/(rad/s)^2, in N/(krad/s)^2
THRUST_CONSTANT == Rat(1, 1)

\* 1e-7 N m/(rad/s)^2, in N m/(krad/s)^2
DRAG_CONSTANT == Rat(1, 10)

propeller_from_position(x, y, z, direction) ==
    [position |-> <<x, y, z>>,
     direction |-> VY,
     thrust_constant |-> THRUST_CONSTANT,
     drag_constant |-> DRAG_CONSTANT,
     rotation_direction |-> direction]

\* simulation.rs:85-90
QuadPropellers ==
    << propeller_from_position(Rat(1, 20), Zero, Rat(1, 20), "CounterClockWise"),
       propeller_from_position(Rat(-1, 20), Zero, Rat(1, 20), "ClockWise"),
       propeller_from_position(Rat(1, 20), Zero, Rat(-1, 20), "ClockWise"),
       propeller_from_position(Rat(-1, 20), Zero, Rat(-1, 20), "CounterClockWise") >>

\* simulation.rs:92
quad_mass == Rat(2, 5)

\* gravity.0.y, the Gravity resource of the physics engine, taken as -10 m/s^2
gravity_y == Rat(-10, 1)

\* simulation.rs:95-98
hover_omega ==
    Sqrt(RDiv(RDiv(RMul(quad_mass, Rat(Abs(gravity_y.n), gravity_y.d)), Rat(4, 1)),
              THRUST_CONSTANT))

\* simulation.rs:110, AngularInertia::new(Vec3::splat(1e-2))
QuadInertia == <<Rat(1, 100), Rat(1, 100), Rat(1, 100)>>

\* simulation.rs:104 and 158, Transform::from_xyz(0., 2., 0.)
SpawnTranslation == <<Zero, Rat(2, 1), Zero>>

\* rotation by the angle with cosine c and sine s about the body z axis (roll)
RotZ(c, s) == << <<c, RNeg(s), Zero>>, <<s, c, Zero>>, <<Zero, Zero, One>> >>

\* pi and f32::to_radians, with pi taken as 63/20
Pi == Rat(63, 20)

to_radians(deg) == RDiv(RMul(deg, Pi), Rat(180, 1))

\* Orientations the vehicle is sampled in: the rotation matrix and its
\* to_euler(EulerRot::YXZ) angles.  "edge" is a roll of just under 90 degrees,
\* its entries rounded to 1e-2.
Level == [rotation |-> RotZ(One, Zero), yaw |-> Zero, pitch |-> Zero, roll |-> Zero]

Banked ==
    [rotation |-> RotZ(Rat(4, 5), Rat(3, 5)), yaw |-> Zero, pitch |-> Zero,
     roll |-> Rat(13, 20)]

Edge ==
    [rotation |-> RotZ(Rat(1, 100), One), yaw |-> Zero, pitch |-> Zero,
     roll |-> Rat(313, 200)]

Inverted ==
    [rotation |-> RotZ(Rat(-1, 1), Zero), yaw |-> Zero, pitch |-> Zero, roll |-> Pi]

\* The kinematic states the physics engine is sampled to leave a vehicle in.
Poses ==
    { [translation |-> SpawnTranslation, orientation |-> Level,
       linear_velocity |-> VZero, angular_velocity |-> VZero],
      [translation |-> <<Zero, Rat(3, 1), Zero>>, orientation |-> Level,
       linear_velocity |-> <<Zero, One, Zero>>, angular_velocity |-> VZero],
      [translation |-> <<Zero, One, Zero>>, orientation |-> Banked,
       linear_velocity |-> <<Zero, Rat(-1, 1), Zero>>,
       angular_velocity |-> <<Zero, Zero, Rat(30, 1)>>],
      [translation |-> SpawnTranslation, orientation |-> Edge,
       linear_velocity |-> VZero, angular_velocity |-> VZero],
      [translation |-> <<Zero, One, Zero>>, orientation |-> Inverted,
       linear_velocity |-> VZero, angular_velocity |-> VZero] }

SpawnPose ==
    [translation |-> SpawnTranslation, orientation |-> Level,
     linear_velocity |-> VZero, angular_velocity |-> VZero]

\* An entity with the components quadcopter_dynamics queries.  impulse is
\* what the last dynamics run handed to the physics engine for it.
NoImpulse == [applied |-> FALSE]

Entity(multicopter, pose, controls, mass, inertia) ==
    [multicopter |-> multicopter,
     pose |-> pose,
     controls |-> controls,
     mass |-> mass,
     inertia |-> inertia,
     impulse |-> NoImpulse]

\* simulation.rs:100-114, the quadcopter setup spawns
Quadcopter ==
    Entity(new(QuadInertia, quad_mass, QuadPropellers).value, SpawnPose,
           [i \in 1..4 |-> hover_omega], quad_mass, QuadInertia)

---------------------------------------------------------------------------
(* examples/simulation.rs: quadcopter_dynamics                             *)

\* simulation.rs:305-311, the call made for one entity of the query
EntityForceTorque(e) ==
    force_torque(e.multicopter, e.pose.orientation.rotation,
                 e.pose.angular_velocity, e.controls, e.inertia)

\* simulation.rs:318-319, the impulses applied with the time step delta
Applied(ft, delta) ==
    [applied |-> TRUE,
     linear |-> VScale(delta, ft.force),
     angular |-> VScale(delta, ft.torque)]

\* The loop with `return` in place of `continue`: it ends at the first
\* entity whose computation fails.
RECURSIVE DynamicsLoopReturn(_, _)
DynamicsLoopReturn(entities, delta) ==
    IF Len(entities) = 0 THEN <<>>
    ELSE
        LET e == Head(entities)
            ft == EntityForceTorque(e)
        IN  IF ft.kind = "Err"
            THEN <<[entity |-> e, reported |-> TRUE]>>
                 \o [i \in 1..(Len(entities) - 1) |->
                        [entity |-> entities[i + 1], reported |-> FALSE]]
            ELSE <<[entity |-> [e EXCEPT !.impulse = Applied(ft, delta)],
                    reported |-> FALSE]>>
                 \o DynamicsLoopReturn(Tail(entities), delta)

\* simulation.rs:304-320, the loop over the query: for each entity, the
\* entity after its iteration and whether error!() was called for it
RECURSIVE DynamicsLoop(_, _)
DynamicsLoop(entities, delta) ==
    IF Len(entities) = 0 THEN <<>>
    ELSE
        LET e == Head(entities)
            ft == EntityForceTorque(e)
        IN  <<IF ft.kind = "Err"
              THEN [entity |-> e, reported |-> TRUE]
              ELSE [entity |-> [e EXCEPT !.impulse = Applied(ft, delta)],
                    reported |-> FALSE]>>
            \o DynamicsLoop(Tail(entities), delta)

\* The physics engine takes the impulses of an entity and leaves it in pose p.
Integrate(e, p) == [e EXCEPT !.pose = p, !.impulse = NoImpulse]

\* The frame times sampled: eighths of a second.
Deltas == {Rat(k, 8) : k \in 0..MaxDtEighths}

---------------------------------------------------------------------------
(* The library called directly: a vehicle of any rotor count is built,     *)
(* then state_derivative is called on it with input vectors of any length. *)

\* n rotors at the corners of the airframe, spinning alternately
LibPropellers(n) ==
    [i \in 1..n |->
        propeller_from_position(
            IF i % 2 = 1 THEN Rat(1, 20) ELSE Rat(-1, 20), Zero,
            IF i % 4 \in {1, 2} THEN Rat(1, 20) ELSE Rat(-1, 20),
            IF i % 4 \in {0, 1} THEN "CounterClockWise" ELSE "ClockWise")]

\* a control input vector of length n
LibInputs(n, w) == [i \in 1..n |-> Omega(Rat(w + (i % 2), 1))]

LibInit ==
    /\ world = <<>>
    /\ log = {}
    /\ ret = [op |-> "none"]
    /\ halted = FALSE
    /\ frame = 0
    /\ pc = "Dynamics"
    /\ paused = FALSE
    /\ dt = Zero
    /\ steps = 0
    /\ desired_altitude = [set |-> FALSE]
    /\ integral_term = Zero
    /\ tick = [ran |-> FALSE]
    /\ consumed = [ran |-> FALSE]

\* Multicopter::new; the vehicle it returns is the one held from then on
LibNew ==
    /\ ~halted
    /\ \E n \in 0..MaxRotors :
          LET r == new(QuadInertia, quad_mass, LibPropellers(n))
          IN  /\ ret' = [op |-> "new", rotors |-> n, result |-> r]
              /\ halted' = (r.kind = "Panic")
              /\ world' = IF r.kind = "Ok"
                          THEN <<Entity(r.value, SpawnPose,
                                        [i \in 1..4 |-> hover_omega],
                                        quad_mass, QuadInertia)>>
                          ELSE world
    /\ UNCHANGED <<log, appVars>>

\* Multicopter::state_derivative on the vehicle held
LibStateDerivative ==
    /\ ~halted
    /\ world # <<>>
    /\ \E n \in 0..MaxInputs, w \in 0..MaxOmega, p \in Poses :
          LET self == world[1].multicopter
              inputs == LibInputs(n, w)
          IN  ret' = [op |-> "state_derivative",
                      propellers |-> self.propellers,
                      inputs |-> inputs,
                      result |-> state_derivative(
                                    self, p.orientation.rotation,
                                    p.angular_velocity, inputs,
                                    <<Zero, RMul(quad_mass, gravity_y), Zero>>,
                                    VZero)]
    /\ UNCHANGED <<world, log, halted, appVars>>

LibNext == LibNew \/ LibStateDerivative

LibSpec == LibInit /\ [][LibNext]_vars

---------------------------------------------------------------------------
(* quadcopter_dynamics over a world of vehicles of any rotor count, each   *)
(* spawned with the four-element QuadcopterControls.                       *)

DynInit == LibInit

DynPoses == {p \in Poses : p.orientation = Banked}

\* commands.spawn of a vehicle, as in setup
DynSpawn ==
    /\ pc = "Dynamics"
    /\ Len(world) < MaxVehicles
    /\ \E n \in 1..MaxRotors, p \in DynPoses :
          world' = Append(world,
                          Entity(new(QuadInertia, quad_mass, LibPropellers(n)).value,
                                 p, [i \in 1..4 |-> hover_omega],
                                 quad_mass, QuadInertia))
    /\ UNCHANGED <<log, ret, halted, appVars>>

\* one fixed step: the time step is read, quadcopter_dynamics runs
DynDynamics ==
    /\ pc = "Dynamics"
    /\ world # <<>>
    /\ \E delta \in Deltas : dt' = delta
    /\ LET out == DynamicsLoop(world, dt')
       IN  /\ world' = [i \in DOMAIN world |-> out[i].entity]
           /\ log' = {i \in DOMAIN world : out[i].reported}
    /\ pc' = "Physics"
    /\ UNCHANGED <<ret, halted, frame, paused, steps, desired_altitude,
                   integral_term, tick, consumed>>

\* the physics engine takes the impulses
DynPhysics ==
    /\ pc = "Physics"
    /\ world' = [i \in DOMAIN world |-> Integrate(world[i], world[i].pose)]
    /\ pc' = "Dynamics"
    /\ UNCHANGED <<log, ret, halted, frame, paused, dt, steps, desired_altitude,
                   integral_term, tick, consumed>>

DynNext == DynSpawn \/ DynDynamics \/ DynPhysics

DynSpec == DynInit /\ [][DynNext]_vars

---------------------------------------------------------------------------
(* examples/simulation.rs: control_quadcopter                              *)

\* KeyP and KeyR are read with just_pressed, the others with pressed.
Keys ==
    {"KeyP", "KeyR", "KeyW", "KeyS", "KeyD", "KeyA", "Space", "ControlLeft",
     "KeyQ", "KeyE"}

KeySets == {k \in SUBSET Keys : Cardinality(k) <= MaxKeys}

\* simulation.rs:148-154
toggle_pause(is_paused, keys) == IF "KeyP" \in keys THEN ~is_paused ELSE is_paused

\* simulation.rs:156-161, reset copter position
reset_pose(pose, keys) ==
    IF "KeyR" \in keys
    THEN [translation |-> SpawnTranslation, orientation |-> Level,
          linear_velocity |-> VZero, angular_velocity |-> VZero]
    ELSE pose

\* simulation.rs:166, transform.rotation.inverse() * angular_velocity.0
\* (the inverse of a rotation is its transpose)
body_angular_velocity(pose) ==
    CHOOSE r \in { MatVec(<< <<m[1][1], m[2][1], m[3][1]>>,
                             <<m[1][2], m[2][2], m[3][2]>>,
                             <<m[1][3], m[2][3], m[3][3]>> >>,
                          pose.angular_velocity) :
                   m \in {pose.orientation.rotation} } : TRUE

\* simulation.rs:169-171, on first run set the desired altitude to ours
latch(desired, altitude) ==
    IF ~desired.set THEN [set |-> TRUE, value |-> altitude] ELSE desired

\* simulation.rs:181-186
desired_pitch(keys) ==
    RAdd(IF "KeyW" \in keys THEN RNeg(to_radians(Rat(20, 1))) ELSE Zero,
         IF "KeyS" \in keys THEN to_radians(Rat(20, 1)) ELSE Zero)

\* simulation.rs:188-193
desired_roll(keys) ==
    RAdd(IF "KeyD" \in keys THEN RNeg(to_radians(Rat(20, 1))) ELSE Zero,
         IF "KeyA" \in keys THEN to_radians(Rat(20, 1)) ELSE Zero)

\* The altitude keys with a rate of 1 per second.
adjust_altitude_unit_rate(value, keys, delta) ==
    RSub(RAdd(value, IF "Space" \in keys THEN delta ELSE Zero),
         IF "ControlLeft" \in keys THEN delta ELSE Zero)

\* simulation.rs:196-201
adjust_altitude(value, keys, delta) ==
    RSub(RAdd(value, IF "Space" \in keys THEN RMul(delta, Rat(2, 1)) ELSE Zero),
         IF "ControlLeft" \in keys THEN RMul(delta, Rat(2, 1)) ELSE Zero)

\* simulation.rs:203-208
desired_yaw_rate(keys) ==
    RAdd(IF "KeyQ" \in keys THEN One ELSE Zero,
         IF "KeyE" \in keys THEN RNeg(One) ELSE Zero)

\* simulation.rs:219
integrate(integral, delta, desired, altitude) ==
    RAdd(integral, RMul(delta, RSub(desired, altitude)))

\* simulation.rs:211-221, target hover
desired_vertical_thrust(desired, altitude, vertical_velocity, integral, mass) ==
    LET gravity_force == RMul(gravity_y, mass)
        p_term == RMul(Rat(40, 1), RSub(desired, altitude))
        d_term == RMul(Rat(30, 1), RSub(Zero, vertical_velocity))
        i_term == RMul(Zero, integral)
    IN  RSub(RAdd(RAdd(p_term, i_term), d_term), gravity_force)

\* simulation.rs:224, transform.local_y().dot(Vec3::Y)
vertical_thrust_coeff(pose) == VDot(MatVec(pose.orientation.rotation, VY), VY)

\* The tilt compensation without the cutoff.
needed_vertical_thrust_no_cutoff(coeff, desired_thrust) ==
    IF RLt(desired_thrust, Zero) THEN Zero ELSE RDiv(desired_thrust, coeff)

\* simulation.rs:225-230
needed_vertical_thrust(coeff, desired_thrust) ==
    IF RLe(coeff, Rat(1, 100)) \/ RLt(desired_thrust, Zero)
    THEN Zero
    ELSE RDiv(desired_thrust, coeff)

\* simulation.rs:237-258, the three desired torques <<pitch, yaw, roll>>
desired_torques(pose, keys) ==
    LET angular_proportional_gain == Rat(5, 100)
        angular_derivative_gain == Rat(1, 100)
        o == pose.orientation
        roll_diff == RSub(desired_roll(keys), o.roll)
        pitch_diff == RSub(desired_pitch(keys), o.pitch)
        yaw_diff == RSub(o.yaw, o.yaw)
        angular_velocity_difference ==
            VSub(<<Zero, desired_yaw_rate(keys), Zero>>, body_angular_velocity(pose))
    IN  << RAdd(RMul(angular_proportional_gain, pitch_diff),
                RMul(angular_derivative_gain, angular_velocity_difference[1])),
           RAdd(RMul(angular_proportional_gain, yaw_diff),
                RMul(angular_derivative_gain, angular_velocity_difference[2])),
           RAdd(RMul(angular_proportional_gain, roll_diff),
                RMul(angular_derivative_gain, angular_velocity_difference[3])) >>

\* simulation.rs:261-268, the desired torques mapped to the propellers
mix(torques) ==
    CHOOSE r \in { << RAdd(RAdd(RNeg(t[1]), t[3]), t[2]),
                      RSub(RSub(RNeg(t[1]), t[3]), t[2]),
                      RSub(RAdd(t[1], t[3]), t[2]),
                      RAdd(RSub(t[1], t[3]), t[2]) >> : t \in {torques} } : TRUE

\* The fold with -0.5 as the threshold.
RECURSIVE reduction_fold_late(_, _, _)
reduction_fold_late(acc, proportions, n) ==
    IF n > Len(proportions) THEN acc
    ELSE reduction_fold_late(
            RMin(acc, IF RLt(proportions[n], Rat(-1, 2))
                      THEN RDiv(Rat(-1, 4), proportions[n])
                      ELSE One),
            proportions, n + 1)

\* simulation.rs:275-281, the fold over the proportions from the n-th on
RECURSIVE reduction_fold(_, _, _)
reduction_fold(acc, proportions, n) ==
    IF n > Len(proportions) THEN acc
    ELSE reduction_fold(
            RMin(acc, IF RLt(proportions[n], Rat(-1, 4))
                      THEN RDiv(Rat(-1, 4), proportions[n])
                      ELSE One),
            proportions, n + 1)

\* simulation.rs:271-281
reduction_factor(proportions) == reduction_fold(One, proportions, 1)

\* simulation.rs:284-285, shrink and add the 0.25 baseline
scale(proportions, factor) ==
    [i \in DOMAIN proportions |-> RAdd(Rat(1, 4), RMul(proportions[i], factor))]

\* simulation.rs:288-290
commands(needed, proportions) ==
    LET necessary_propeller_rotation_rate == Sqrt(RDiv(needed, THRUST_CONSTANT))
    IN  [i \in DOMAIN proportions |->
            SurdScale(necessary_propeller_rotation_rate, proportions[i])]

\* The Locals with a reset that also clears them.
NextLocalsClearedOnReset(desired, integral, pose, keys, delta) ==
    LET cleared == "KeyR" \in keys
        latched == latch(IF cleared THEN [set |-> FALSE] ELSE desired,
                         pose.translation[2])
        value == adjust_altitude(latched.value, keys, delta)
    IN  [desired_altitude |-> [set |-> TRUE, value |-> value],
         integral_term |-> IF cleared THEN Zero
                           ELSE integrate(integral, delta, value, pose.translation[2])]

\* simulation.rs:169-171, 195-201 and 219: the two Locals after a run that
\* finds the vehicle (after the reset, if any) in pose
NextLocals(desired, integral, pose, keys, delta) ==
    LET latched == latch(desired, pose.translation[2])
        value == adjust_altitude(latched.value, keys, delta)
    IN  [desired_altitude |-> [set |-> TRUE, value |-> value],
         integral_term |-> integrate(integral, delta, value, pose.translation[2])]

---------------------------------------------------------------------------
(* The application: setup, then frame after frame.  In a frame the time is *)
(* advanced, then FixedUpdate runs as often as the time that has passed    *)
(* asks for (quadcopter_dynamics, then the physics engine), then Update    *)
(* runs (control_quadcopter).                                              *)

\* setup without game_time.pause()
InitUnpaused ==
    /\ world = <<Quadcopter>>
    /\ log = {}
    /\ ret = [op |-> "none"]
    /\ halted = FALSE
    /\ frame = 0
    /\ pc = "First"
    /\ paused = FALSE
    /\ dt = Zero
    /\ steps = 0
    /\ desired_altitude = [set |-> FALSE]
    /\ integral_term = Zero
    /\ tick = [ran |-> FALSE]
    /\ consumed = [ran |-> FALSE]

\* simulation.rs:47-123, setup: time is paused, the quadcopter is spawned
Init ==
    /\ world = <<Quadcopter>>
    /\ log = {}
    /\ ret = [op |-> "none"]
    /\ halted = FALSE
    /\ frame = 0
    /\ pc = "First"
    /\ paused = TRUE
    /\ dt = Zero
    /\ steps = 0
    /\ desired_altitude = [set |-> FALSE]
    /\ integral_term = Zero
    /\ tick = [ran |-> FALSE]
    /\ consumed = [ran |-> FALSE]

\* A frame begins: virtual time advances unless paused, and the fixed time
\* steps it adds up to are due.
BeginFrame ==
    /\ pc = "First"
    /\ frame < MaxFrames
    /\ frame' = frame + 1
    /\ \E delta \in IF paused THEN {Zero} ELSE Deltas \ {Zero} : dt' = delta
    /\ \E n \in IF dt' = Zero THEN {0} ELSE 0..MaxFixedSteps : steps' = n
    /\ pc' = IF steps' > 0 THEN "Dynamics" ELSE "Update"
    /\ UNCHANGED <<world, log, ret, halted, paused, desired_altitude,
                   integral_term, tick, consumed>>

\* FixedUpdate: quadcopter_dynamics (simulation.rs:293-321)
QuadcopterDynamics ==
    /\ pc = "Dynamics"
    /\ LET out == DynamicsLoop(world, dt)
       IN  /\ world' = [i \in DOMAIN world |-> out[i].entity]
           /\ log' = {i \in DOMAIN world : out[i].reported}
    /\ consumed' = [ran |-> TRUE, frame |-> frame,
                    command |-> IF tick.ran THEN tick.frame ELSE 0]
    /\ pc' = "Physics"
    /\ UNCHANGED <<ret, halted, frame, paused, dt, steps, desired_altitude,
                   integral_term, tick>>

\* the physics engine integrates the fixed step
PhysicsStep ==
    /\ pc = "Physics"
    /\ \E p \in Poses : world' = [i \in DOMAIN world |-> Integrate(world[i], p)]
    /\ steps' = steps - 1
    /\ pc' = IF steps' > 0 THEN "Dynamics" ELSE "Update"
    /\ UNCHANGED <<log, ret, halted, frame, paused, dt, desired_altitude,
                   integral_term, tick, consumed>>

\* Update: control_quadcopter (simulation.rs:130-291).  Its locals are bound
\* in the order the function computes them; tick keeps them.
ControlQuadcopter ==
    /\ pc = "Update"
    /\ \E keys \in KeySets :
       \E pose \in {reset_pose(world[1].pose, keys)} :
       \E locals \in {NextLocals(desired_altitude, integral_term, pose, keys, dt)} :
       \E wanted \in {desired_vertical_thrust(
                         locals.desired_altitude.value, pose.translation[2],
                         pose.linear_velocity[2], locals.integral_term,
                         world[1].mass)} :
       \E coeff \in {vertical_thrust_coeff(pose)} :
       \E needed \in {needed_vertical_thrust(coeff, wanted)} :
       \E raw \in {mix(desired_torques(pose, keys))} :
       \E factor \in {reduction_factor(raw)} :
       \E proportions \in {scale(raw, factor)} :
          /\ paused' = toggle_pause(paused, keys)
          /\ desired_altitude' = locals.desired_altitude
          /\ integral_term' = locals.integral_term
          /\ world' = <<[world[1] EXCEPT !.pose = pose,
                                         !.controls = commands(needed, proportions)]>>
          /\ tick' = [ran |-> TRUE,
                      frame |-> frame,
                      keys |-> keys,
                      dt |-> dt,
                      vertical_thrust_coeff |-> coeff,
                      desired_vertical_thrust |-> wanted,
                      needed_vertical_thrust |-> needed,
                      raw |-> raw,
                      reduction_factor |-> factor,
                      propeller_thrust_proportions |-> proportions]
    /\ pc' = "First"
    /\ UNCHANGED <<log, ret, halted, frame, dt, steps, consumed>>

Next == BeginFrame \/ QuadcopterDynamics \/ PhysicsStep \/ ControlQuadcopter

Spec == Init /\ [][Next]_vars

---------------------------------------------------------------------------
(* Claims about the library (LibSpec) and the dynamics system (DynSpec).   *)

\* C1: state_derivative returns the input-length error for every call whose
\* control input length differs from the rotor count, with no force or torque
\* in the result, and a successful result for every call whose length equals
\* the rotor count.
C1_LengthChecked ==
    ret.op = "state_derivative" =>
        IF Len(ret.inputs) # Len(ret.propellers)
        THEN ret.result = [kind |-> "Err", msg |-> "Incorrect control input length"]
        ELSE /\ ret.result.kind = "Ok"
             /\ DOMAIN ret.result = {"kind", "acceleration", "angular_acceleration"}

\* a call with more inputs than rotors was refused
C1_Witness ==
    /\ ret.op = "state_derivative"
    /\ Len(ret.inputs) > Len(ret.propellers)
    /\ ret.result.kind = "Err"

\* C2 as claimed: Multicopter::new on an empty rotor list returns an error
\* value (and does not abort).
C2_EmptyReturnsErr ==
    (ret.op = "new" /\ ret.rotors = 0) => (ret.result.kind = "Err" /\ ~halted)

\* C3: after a run of quadcopter_dynamics, a vehicle whose force/torque
\* computation fails has no impulse applied and was reported, and every other
\* vehicle has its impulses applied, wherever it stands in the query.
C3_FailureSkipsOnlyThatVehicle ==
    pc = "Physics" =>
        \A i \in DOMAIN world :
            IF Len(world[i].controls) # Len(world[i].multicopter.propellers)
            THEN world[i].impulse = NoImpulse /\ i \in log
            ELSE /\ world[i].impulse.applied
                 /\ world[i].impulse.linear =
                        VScale(dt, MatVec(world[i].pose.orientation.rotation,
                                          thrust(world[i].multicopter.propellers,
                                                 world[i].controls)))
                 /\ i \notin log

\* a failing vehicle was skipped and the vehicle after it was pushed upwards
C3_Witness ==
    /\ pc = "Physics"
    /\ Len(world) = 2
    /\ 1 \in log
    /\ world[1].impulse = NoImpulse
    /\ world[2].impulse.applied
    /\ RLt(Zero, world[2].impulse.linear[2])

\* the rotor p spinning the other way
Flip(p) ==
    [p EXCEPT !.rotation_direction =
        IF @ = "ClockWise" THEN "CounterClockWise" ELSE "ClockWise"]

\* what the rotational drag of rotor p adds to the net propeller torque
DragContribution(p, omega) ==
    VSub(propeller_torque_term(p, VZero, omega), VCross(p.position, VZero))

\* C6 as claimed: for a rotor and the spin rate it was given, the drag
\* contribution to the net propeller torque changes sign when the rotor's
\* rotation_direction is flipped.
C6_DragSignFlips ==
    (ret.op = "state_derivative" /\ ret.result.kind = "Ok") =>
        \A i \in DOMAIN ret.propellers :
            DragContribution(Flip(ret.propellers[i]), ret.inputs[i])
                = VSub(VZero, DragContribution(ret.propellers[i], ret.inputs[i]))

---------------------------------------------------------------------------
(* Claims about the controller and the frame loop (Spec).                  *)

\* the sum of the elements of a sequence of rationals
RECURSIVE RSumTo(_, _)
RSumTo(qs, n) == IF n = 0 THEN Zero ELSE RAdd(RSumTo(qs, n - 1), qs[n])

\* the raw proportions of the last run that are below -0.25
Below == {i \in 1..4 : RLt(tick.raw[i], Rat(-1, 4))}

\* C4: in every run of the controller the four offsets are multiplied by one
\* common factor, which is at most 1; when no raw proportion is below -0.25
\* the factor is 1; when some are, it is the minimum of -0.25/proportion over
\* those, and no output proportion is negative.
C4_SaturationScaling ==
    tick.ran =>
        /\ \A i \in 1..4 :
              tick.propeller_thrust_proportions[i]
                  = RAdd(Rat(1, 4), RMul(tick.raw[i], tick.reduction_factor))
        /\ RLe(tick.reduction_factor, One)
        /\ Below = {} => tick.reduction_factor = One
        /\ Below # {} =>
              /\ \A i \in Below :
                    RLe(tick.reduction_factor, RDiv(Rat(-1, 4), tick.raw[i]))
              /\ \E i \in Below :
                    tick.reduction_factor = RDiv(Rat(-1, 4), tick.raw[i])
              /\ \A i \in 1..4 : RLe(Zero, tick.propeller_thrust_proportions[i])

\* two raw proportions were below -0.25 while thrust was commanded
C4_Witness ==
    /\ tick.ran
    /\ Cardinality(Below) >= 2
    /\ RLt(tick.reduction_factor, One)
    /\ RLt(Zero, tick.needed_vertical_thrust)

\* C5: when the tilt coefficient is at or below 0.01, or the desired vertical
\* thrust is negative, the needed thrust is zero and so are the four commanded
\* spin rates; otherwise the needed thrust is the desired one divided by the
\* coefficient.
C5_TiltCompensation ==
    tick.ran =>
        IF \/ RLe(tick.vertical_thrust_coeff, Rat(1, 100))
           \/ RLt(tick.desired_vertical_thrust, Zero)
        THEN /\ tick.needed_vertical_thrust = Zero
             /\ \A i \in 1..4 : Powi2(world[1].controls[i]) = Zero
        ELSE tick.needed_vertical_thrust
                = RDiv(tick.desired_vertical_thrust, tick.vertical_thrust_coeff)

\* at the cutoff itself, with a large positive thrust asked for
C5_Witness ==
    /\ tick.ran
    /\ tick.vertical_thrust_coeff = Rat(1, 100)
    /\ RLt(Rat(10, 1), tick.desired_vertical_thrust)
    /\ \A i \in 1..4 : world[1].controls[i] = Omega(Zero)

\* C7 as claimed: every run of the dynamics reads the command the controller
\* produced in the same frame.
C7_SameTickCommand ==
    consumed.ran => (consumed.command = consumed.frame /\ consumed.command # 0)

\* C7: every run of the dynamics reads the command the controller produced in
\* the frame before, and never the command of the spawn.
C7_PreviousFrameCommand ==
    consumed.ran => (consumed.command = consumed.frame - 1 /\ consumed.command # 0)

\* the dynamics ran in the third frame, twice
C7_Witness ==
    /\ consumed.ran
    /\ consumed.frame = 3
    /\ consumed.command = 2
    /\ pc = "Physics"
    /\ steps = 1

\* C8 as claimed: after a run that resets the vehicle the desired altitude is
\* the vehicle's altitude and the integral accumulator is zero.
C8_ResetClearsLocals ==
    (pc = "First" /\ tick.ran /\ "KeyR" \in tick.keys) =>
        /\ desired_altitude.value = world[1].pose.translation[2]
        /\ integral_term = Zero

\* the change of the desired altitude the keys ask for
AltitudeInput(keys, delta) ==
    IF "Space" \in keys /\ "ControlLeft" \notin keys THEN RMul(Rat(2, 1), delta)
    ELSE IF "ControlLeft" \in keys /\ "Space" \notin keys
         THEN RNeg(RMul(Rat(2, 1), delta))
         ELSE Zero

\* C8: the two Locals change in control_quadcopter only, and a run that
\* resets the vehicle puts it back at the spawn pose at rest but treats the
\* Locals as any other run does: a desired altitude that is set moves by the
\* operator's input only, and the accumulator goes on accumulating.
C8_ResetKeepsLocals ==
    [][ /\ pc # "Update" => UNCHANGED <<desired_altitude, integral_term>>
        /\ (pc = "Update" /\ "KeyR" \in tick'.keys) =>
              /\ world'[1].pose = SpawnPose
              /\ desired_altitude.set =>
                    desired_altitude'.value
                        = RAdd(desired_altitude.value, AltitudeInput(tick'.keys, dt))
              /\ integral_term'
                    = RAdd(integral_term,
                           RMul(dt, RSub(desired_altitude'.value,
                                         SpawnTranslation[2]))) ]_vars

\* a reset left a desired altitude above the vehicle and a non-zero integral
C8_Witness ==
    /\ pc = "First"
    /\ tick.ran
    /\ "KeyR" \in tick.keys
    /\ world[1].pose = SpawnPose
    /\ RLt(world[1].pose.translation[2], desired_altitude.value)
    /\ integral_term # Zero

\* C9: the desired altitude is latched in the first run of the controller, to
\* the vehicle's altitude in that run; from then on it stays set and a run
\* moves it by 2*dt up (up key alone), 2*dt down (down key alone) or not at
\* all (neither, both, or no time elapsed); nothing else changes it.
C9_LatchedOnce ==
    [][ /\ pc # "Update" => UNCHANGED desired_altitude
        /\ (pc = "Update" /\ ~desired_altitude.set) =>
              /\ ~tick.ran
              /\ desired_altitude'
                    = [set |-> TRUE, value |-> world'[1].pose.translation[2]]
        /\ (pc = "Update" /\ desired_altitude.set) =>
              /\ desired_altitude'.set
              /\ desired_altitude'.value
                    = RAdd(desired_altitude.value, AltitudeInput(tick'.keys, dt))
              /\ dt = Zero => desired_altitude' = desired_altitude ]_vars

\* the up key alone raised a latched desired altitude, away from the vehicle
C9_Witness ==
    /\ tick.ran
    /\ tick.frame >= 2
    /\ "Space" \in tick.keys
    /\ tick.dt # Zero
    /\ desired_altitude.value = RAdd(SpawnTranslation[2], RMul(Rat(2, 1), tick.dt))

\* the thrust the commanded spin rates give on the quadcopter's rotors
CommandedThrust ==
    RSumTo([i \in 1..4 |->
               RMul(world[1].multicopter.propellers[i].thrust_constant,
                    Powi2(world[1].controls[i]))], 4)

\* C10 as claimed: after every run of the controller the four proportions sum
\* to 1 and the commanded spin rates give the needed thrust.
C10_ThrustAchieved ==
    tick.ran =>
        /\ RSumTo(tick.propeller_thrust_proportions, 4) = One
        /\ CommandedThrust = tick.needed_vertical_thrust

====
